---- MODULE Spec2Model ----
(***************************************************************************)
(* A model of package deck (card.go): the Card value, the two ranking      *)
(* keys, the comparator factories, the transformations Shuffle, Jokers,    *)
(* Filter, Deck, DefaultSort and Sort, and the builder New that folds a    *)
(* list of transformations over the generated 52-card sequence.            *)
(***************************************************************************)
EXTENDS Integers, Sequences, FiniteSets

VARIABLES
    pc,     \* "idle": nothing called; "apply": transformations pending; "done": returned
    opts,   \* the transformations still to be applied are opts[idx..]
    idx,    \* position of the next transformation in opts
    cards,  \* the working slice
    hist    \* history: hist[1] is the first slice, hist[k+1] what the k-th transformation returned

vars == <<pc, opts, idx, cards, hist>>

----------------------------------------------------------------------------
(* Bounds of the model. *)

MaxOpts == 2        \* longest transformation list handed to New
MaxCount == 2       \* largest n of Jokers(n) and Deck(n) in a list handed to New
MaxJokers == 3      \* largest n of a directly applied Jokers(n)
MaxDecks == 3       \* largest n of a directly applied Deck(n)
MaxLen == 3         \* longest of the small input sequences
MaxSeed == 5        \* outcomes of the random source are numbered 0..MaxSeed
JokersPastRank == 1 \* Jokers(n) is applied up to n = RankModulus + JokersPastRank

----------------------------------------------------------------------------
(* Entity model: Suit, Rank, Card. *)

Spade == 0
Diamond == 1
Club == 2
Heart == 3
Joker == 4

suits == <<Spade, Diamond, Club, Heart>>

Ace == 1
King == 13

minRank == Ace
maxRank == King

\* Rank is a uint8: a conversion Rank(i) keeps i modulo 2^8.
RankModulus == 256

Rank(i) == i % RankModulus

Card(s, r) == [Suit |-> s, Rank |-> r]

----------------------------------------------------------------------------
(* Ranking keys and comparator factories. *)

absRank(c) == c.Suit * maxRank + c.Rank

\* rankThenSuit with the suit subtracted (sensitivity of C10).
rankThenSuitMinus(c) == ((c.Rank - 1) * Len(suits)) - c.Suit

rankThenSuit(c) == ((c.Rank - 1) * Len(suits)) + c.Suit

\* ByRankThenBySuit comparing the suit-major key (sensitivity of C8).
ByRankThenBySuitWrongKey(s) ==
    [i \in DOMAIN s, j \in DOMAIN s |-> absRank(s[i]) < absRank(s[j])]

\* The closure returned for a slice: less[i, j] over positions of that slice.
ByRankThenBySuit(s) ==
    [i \in DOMAIN s, j \in DOMAIN s |-> rankThenSuit(s[i]) < rankThenSuit(s[j])]

\* BySuitThenByRank with the comparison turned round (sensitivity of C7).
BySuitThenByRankGreater(s) ==
    [i \in DOMAIN s, j \in DOMAIN s |-> absRank(s[i]) > absRank(s[j])]

BySuitThenByRank(s) ==
    [i \in DOMAIN s, j \in DOMAIN s |-> absRank(s[i]) < absRank(s[j])]

\* The comparator factories a caller can hand to Sort, by name.
Comparators == {"ByRankThenBySuit", "BySuitThenByRank"}

Comparator(less, s) ==
    IF less = "ByRankThenBySuit" THEN ByRankThenBySuit(s) ELSE BySuitThenByRank(s)

----------------------------------------------------------------------------
(* sort.Slice: an unstable comparison sort.  Its outcomes are all the     *)
(* arrangements of the slice in which no card is before a card that is    *)
(* less than it: cards that compare equal may come out in any order.      *)

\* Number of positions holding a card less than the one at position i
\* (as a tuple: the concatenation with << >> tabulates the function once).
Below(s, less) ==
    [i \in DOMAIN s |-> Cardinality({j \in DOMAIN s : less[j, i]})] \o <<>>

RECURSIVE Arrangements(_, _)
\* All the orders in which the cards at the positions G can follow each other.
Arrangements(s, G) ==
    IF G = {} THEN {<<>>}
    ELSE LET first == {i \in G : \A j \in G : s[j] = s[i] => i <= j}
         IN UNION {{<<s[i]>> \o t : t \in Arrangements(s, G \ {i})} : i \in first}

RECURSIVE SortedRange(_, _, _, _)
\* The outcomes for result positions lo+1..hi+1: the cards with `below` in lo..hi.
SortedRange(s, below, lo, hi) ==
    IF lo > hi THEN {<<>>}
    ELSE IF lo = hi
    THEN Arrangements(s, {i \in DOMAIN s : below[i] = lo})
    ELSE LET mid == (lo + hi) \div 2
         IN {a \o b : a \in SortedRange(s, below, lo, mid),
                      b \in SortedRange(s, below, mid + 1, hi)}

SortSlice(s, less) == SortedRange(s, Below(s, less), 0, Len(s) - 1)

DefaultSort(s) == SortSlice(s, BySuitThenByRank(s))

Sort(less, s) == SortSlice(s, Comparator(less, s))

----------------------------------------------------------------------------
(* Shuffle: rand.Shuffle walks i from len-1 down to 1, draws j in 0..i    *)
(* and calls the swap callback.  The random source is an input: its       *)
(* outcome number `seed` fixes every draw.                                  *)

RECURSIVE Factorial(_)
Factorial(i) == IF i <= 1 THEN 1 ELSE i * Factorial(i - 1)

\* Largest i whose draw is read off the digits of the seed.
DigitDraws == 6

\* The draw j in 0..i made at step i by the random source's outcome `seed`.
Intn(seed, i) ==
    IF i <= DigitDraws
    THEN (seed \div Factorial(i)) % (i + 1)
    ELSE (seed * (i \div 2) + seed) % (i + 1)

\* A swap that overwrites position i and loses its card (sensitivity of C9).
SwapOverwrites(s, i, j) == [s EXCEPT ![i + 1] = s[j + 1]]

\* The swap callback, on 0-based positions i and j.
Swap(s, i, j) == [s EXCEPT ![i + 1] = s[j + 1], ![j + 1] = s[i + 1]]

RECURSIVE ShuffleSteps(_, _, _, _)
\* The steps i = hi, hi-1, ..., lo of the walk, in that order.
ShuffleSteps(s, seed, hi, lo) ==
    IF hi < lo THEN s
    ELSE IF hi = lo THEN Swap(s, hi, Intn(seed, hi))
    ELSE LET mid == (lo + hi) \div 2
             upper == ShuffleSteps(s, seed, hi, mid + 1)
         IN IF upper = <<>> THEN upper ELSE ShuffleSteps(upper, seed, mid, lo)

Shuffle(s, seed) == ShuffleSteps(s, seed, Len(s) - 1, 1)

----------------------------------------------------------------------------
(* Jokers, Filter, Deck. *)

\* Jokers with the loop started at 1 (sensitivity of C5).
JokersFromOne(n, s) == s \o [k \in 1..(n - 1) |-> Card(Joker, Rank(k))]

\* for i := 0; i < n; i++ { cards = append(cards, Card{Joker, Rank(i)}) }
Jokers(n, s) == s \o [k \in 1..n |-> Card(Joker, Rank(k - 1))]

\* The predicates a caller hands to Filter, by name.
Preds == {"always", "never", "isHeart", "isJoker"}

Holds(f, c) ==
    CASE f = "always" -> TRUE
      [] f = "never" -> FALSE
      [] f = "isHeart" -> c.Suit = Heart
      [] f = "isJoker" -> c.Suit = Joker

\* Filter keeping the cards with f(card) (sensitivity of C3).
FilterKeepsMatches(f, s) == SelectSeq(s, LAMBDA c : Holds(f, c))

\* ret keeps, in order, every card with !f(card).
Filter(f, s) == SelectSeq(s, LAMBDA c : ~Holds(f, c))

RECURSIVE DeckLoopOneMore(_, _, _, _)
\* DeckLoop with the bound i <= n (sensitivity of C4).
DeckLoopOneMore(ret, s, i, n) ==
    IF i <= n THEN DeckLoopOneMore(ret \o s, s, i + 1, n) ELSE ret

RECURSIVE DeckLoop(_, _, _, _)
DeckLoop(ret, s, i, n) ==
    IF i < n THEN DeckLoop(ret \o s, s, i + 1, n) ELSE ret

Deck(n, s) == DeckLoop(<<>>, s, 0, n)

----------------------------------------------------------------------------
(* New: the generation loops. *)

RECURSIVE RankLoopNoKing(_, _, _)
\* RankLoop with the bound rank < maxRank (sensitivity of C1).
RankLoopNoKing(s, suit, rank) ==
    IF rank < maxRank
    THEN RankLoopNoKing(Append(s, Card(suit, rank)), suit, Rank(rank + 1))
    ELSE s

RECURSIVE RankLoop(_, _, _)
RankLoop(s, suit, rank) ==
    IF rank <= maxRank
    THEN RankLoop(Append(s, Card(suit, rank)), suit, Rank(rank + 1))
    ELSE s

RECURSIVE SuitLoop(_, _)
SuitLoop(s, k) ==
    IF k <= Len(suits) THEN SuitLoop(RankLoop(s, suits[k], minRank), k + 1) ELSE s

NewBase == SuitLoop(<<>>, 1)

----------------------------------------------------------------------------
(* Transformations as values: what a caller can put in New's list. *)

OptJokers(n) == [op |-> "Jokers", n |-> n, f |-> "-"]
OptDeck(n) == [op |-> "Deck", n |-> n, f |-> "-"]
OptFilter(f) == [op |-> "Filter", n |-> 0, f |-> f]
OptSort(less) == [op |-> "Sort", n |-> 0, f |-> less]
OptDefaultSort == [op |-> "DefaultSort", n |-> 0, f |-> "-"]
OptShuffle == [op |-> "Shuffle", n |-> 0, f |-> "-"]

OptsUpTo(jokers, decks) ==
    {OptJokers(n) : n \in 0..jokers} \cup {OptDeck(n) : n \in 0..decks}
        \cup {OptFilter(f) : f \in Preds} \cup {OptSort(less) : less \in Comparators}
        \cup {OptDefaultSort, OptShuffle}

\* The lists handed to New.
OptLists == UNION {[1..k -> OptsUpTo(MaxCount, MaxCount)] : k \in 0..MaxOpts}

\* The list walked from its end (sensitivity of C2).
RangeOptBackwards(o, k) == o[Len(o) + 1 - k]

\* for _, opt := range opts: the transformation taken at position k.
RangeOpt(o, k) == o[k]

----------------------------------------------------------------------------
(* Actions. *)

\* New(opts...): generates the 52 cards; the loop over opts follows.
Call ==
    /\ pc = "idle"
    /\ \E o \in OptLists : opts' = o
    /\ pc' = "apply"
    /\ idx' = 1
    /\ cards' = NewBase
    /\ hist' = <<NewBase>>

\* The loop is at a transformation of kind op.
Pending(op) ==
    /\ pc = "apply"
    /\ idx <= Len(opts)
    /\ RangeOpt(opts, idx).op = op

\* cards = opt(cards): the slice the transformation returned replaces cards.
Assign(out) ==
    /\ cards' = out
    /\ hist' = Append(hist, out)
    /\ idx' = idx + 1
    /\ UNCHANGED <<pc, opts>>

ApplyJokers == Pending("Jokers") /\ Assign(Jokers(RangeOpt(opts, idx).n, cards))

ApplyDeck == Pending("Deck") /\ Assign(Deck(RangeOpt(opts, idx).n, cards))

ApplyFilter == Pending("Filter") /\ Assign(Filter(RangeOpt(opts, idx).f, cards))

ApplyDefaultSort == Pending("DefaultSort") /\ \E out \in DefaultSort(cards) : Assign(out)

ApplySort ==
    Pending("Sort") /\ \E out \in Sort(RangeOpt(opts, idx).f, cards) : Assign(out)

ApplyShuffle == Pending("Shuffle") /\ \E seed \in 0..MaxSeed : Assign(Shuffle(cards, seed))

Apply ==
    \/ ApplyJokers
    \/ ApplyDeck
    \/ ApplyFilter
    \/ ApplyDefaultSort
    \/ ApplySort
    \/ ApplyShuffle

\* return cards
Return ==
    /\ pc = "apply"
    /\ idx > Len(opts)
    /\ pc' = "done"
    /\ UNCHANGED <<opts, idx, cards, hist>>

----------------------------------------------------------------------------
(* Spec: a call of New with any list of transformations. *)

Init ==
    /\ pc = "idle"
    /\ opts = <<>>
    /\ idx = 1
    /\ cards = <<>>
    /\ hist = <<>>

Next == Call \/ Apply \/ Return

Spec == Init /\ [][Next]_vars

----------------------------------------------------------------------------
(* SpecFn: one transformation applied directly to an input sequence:      *)
(* every short sequence over a few cards, the generated deck, and the     *)
(* generated deck with jokers in several arrangements.                     *)

SmallCards == {Card(Spade, Ace), Card(Heart, King), Card(Joker, 0), Card(Joker, 1)}

SmallSeqs == UNION {[1..k -> SmallCards] : k \in 0..MaxLen}

WithJokers == {Jokers(n, NewBase) : n \in 0..MaxJokers}

Arranged == {Shuffle(s, seed) : s \in WithJokers, seed \in 0..MaxSeed}

Inputs == SmallSeqs \cup WithJokers \cup Arranged

InitFn ==
    /\ pc = "apply"
    /\ \E o \in OptsUpTo(MaxJokers, MaxDecks) : opts = <<o>>
    /\ idx = 1
    /\ cards \in Inputs
    /\ hist = <<cards>>

NextFn == Apply \/ Return

SpecFn == InitFn /\ [][NextFn]_vars

----------------------------------------------------------------------------
(* SpecJokers: Jokers(n) applied directly, for every n up to just past    *)
(* the number of values a Rank can hold.                                   *)

InitJokers ==
    /\ pc = "apply"
    /\ \E n \in 0..(RankModulus + JokersPastRank) : opts = <<OptJokers(n)>>
    /\ idx = 1
    /\ cards \in {<<>>, NewBase}
    /\ hist = <<cards>>

NextJokers == ApplyJokers \/ Return

SpecJokers == InitJokers /\ [][NextJokers]_vars

----------------------------------------------------------------------------
(* Vocabulary of the properties. *)

\* Number of positions of s holding the card c.
Count(s, c) == Cardinality({i \in DOMAIN s : s[i] = c})

CardsOf(s) == {s[i] : i \in DOMAIN s}

\* The same cards, each as many times: one is a permutation of the other.
SameCards(a, b) ==
    /\ Len(a) = Len(b)
    /\ \A c \in CardsOf(a) \cup CardsOf(b) : Count(a, c) = Count(b, c)

RealCards == {Card(s, r) : s \in {Spade, Diamond, Club, Heart}, r \in Ace..King}

\* The 52 cards suit by suit, Spade, Diamond, Club, Heart, each from Ace to King.
SuitMajorDeck == [p \in 1..52 |-> Card((p - 1) \div 13, ((p - 1) % 13) + 1)]

\* The 52 cards rank by rank, Ace to King, each in the order Spade, Diamond, Club, Heart.
RankMajorDeck == [p \in 1..52 |-> Card((p - 1) % 4, ((p - 1) \div 4) + 1)]

\* The cards of s that are not jokers, in their order in s.
NonJokers(s) == SelectSeq(s, LAMBDA c : c.Suit # Joker)

\* The k-th smallest element of a set of numbers.
Nth(K, k) == CHOOSE i \in K : Cardinality({j \in K : j <= i}) = k

\* A directly applied transformation of kind op has returned.
Applied(op) == Len(opts) = 1 /\ opts[1].op = op /\ Len(hist) = 2

----------------------------------------------------------------------------
(* C1: New() with no transformations returns exactly the 52 cards, one    *)
(* per (suit, rank) pair of the four suits and thirteen ranks (13 per     *)
(* suit, 4 per rank, no duplicate, no joker), suit by suit in the order   *)
(* Spade, Diamond, Club, Heart and from Ace to King within a suit.        *)

Thm_C1 ==
    (pc = "done" /\ opts = <<>>) =>
        /\ Len(cards) = 52
        /\ cards = SuitMajorDeck
        /\ \A c \in RealCards : Count(cards, c) = 1
        /\ \A i \in DOMAIN cards : cards[i].Suit # Joker
        /\ \A s \in {Spade, Diamond, Club, Heart} :
               Cardinality({i \in DOMAIN cards : cards[i].Suit = s}) = 13
        /\ \A r \in Ace..King :
               Cardinality({i \in DOMAIN cards : cards[i].Rank = r}) = 4

Wit_C1 == pc = "done" /\ opts = <<>> /\ Len(cards) = 52 /\ hist = <<cards>>

----------------------------------------------------------------------------
(* C2: New(t1, ..., tk) applies the transformations in the order given,   *)
(* each exactly once, the first to the generated 52 cards and every       *)
(* other to what the one before it returned, and returns what the last    *)
(* one returned; so Jokers(j) before Deck(d) gives (52 + j) * d cards     *)
(* and Deck(d) before Jokers(j) gives 52 * d + j.                          *)

\* No card of out is right before a card that is less than it.
Sorted(out, less) == \A i \in 1..(Len(out) - 1) : ~less[i + 1, i]

\* The transformation opt, given the slice s, can return out.
Returns(opt, s, out) ==
    CASE opt.op = "Jokers" -> out = Jokers(opt.n, s)
      [] opt.op = "Deck" -> out = Deck(opt.n, s)
      [] opt.op = "Filter" -> out = Filter(opt.f, s)
      [] opt.op = "DefaultSort" -> SameCards(s, out) /\ Sorted(out, BySuitThenByRank(out))
      [] opt.op = "Sort" -> SameCards(s, out) /\ Sorted(out, Comparator(opt.f, out))
      [] opt.op = "Shuffle" -> \E seed \in 0..MaxSeed : out = Shuffle(s, seed)

Thm_C2 ==
    pc = "done" =>
        /\ Len(hist) = Len(opts) + 1
        /\ hist[1] = SuitMajorDeck
        /\ \A k \in DOMAIN opts : Returns(opts[k], hist[k], hist[k + 1])
        /\ cards = hist[Len(hist)]
        /\ \A j, d \in 0..MaxCount :
               /\ opts = <<OptJokers(j), OptDeck(d)>> => Len(cards) = (52 + j) * d
               /\ opts = <<OptDeck(d), OptJokers(j)>> => Len(cards) = 52 * d + j

Wit_C2 ==
    /\ pc = "done"
    /\ opts = <<OptJokers(2), OptDeck(2)>>
    /\ Len(cards) = 108

----------------------------------------------------------------------------
(* C3: Filter(f)(s) is the subsequence of s of the cards with f false, in *)
(* their order in s; an always-true f gives the empty sequence, an        *)
(* always-false f gives s, and f = "is a Heart" on the generated deck     *)
(* gives 39 cards, none a Heart.                                           *)

Thm_C3 ==
    Applied("Filter") =>
        LET s == hist[1]
            out == hist[2]
            f == opts[1].f
            kept == {i \in DOMAIN s : ~Holds(f, s[i])}
        IN /\ Len(out) = Cardinality(kept)
           /\ \A k \in DOMAIN out : out[k] = s[Nth(kept, k)]
           /\ f = "always" => out = <<>>
           /\ f = "never" => out = s
           /\ (f = "isHeart" /\ s = SuitMajorDeck) =>
                  Len(out) = 39 /\ \A k \in DOMAIN out : out[k].Suit # Heart

Wit_C3 ==
    /\ Applied("Filter")
    /\ opts[1].f = "isHeart"
    /\ hist[1] = SuitMajorDeck
    /\ Len(cards) = 39
    /\ cards[39] = Card(Club, King)

----------------------------------------------------------------------------
(* C4: Deck(n)(s) is n copies of s one after the other: n * len(s) cards, *)
(* the card at 0-based position k being s[k mod len(s)], every card       *)
(* occurring n times as often as in s; Deck(0)(s) is empty and Deck(1)(s) *)
(* equals s.                                                               *)

Thm_C4 ==
    Applied("Deck") =>
        LET s == hist[1]
            out == hist[2]
            n == opts[1].n
        IN /\ Len(out) = n * Len(s)
           /\ \A k \in 0..(Len(out) - 1) : out[k + 1] = s[(k % Len(s)) + 1]
           /\ \A c \in CardsOf(s) \cup CardsOf(out) : Count(out, c) = n * Count(s, c)
           /\ n = 0 => out = <<>>
           /\ n = 1 => out = s

Wit_C4 ==
    /\ Applied("Deck")
    /\ opts[1].n = 3
    /\ hist[1] = SuitMajorDeck
    /\ Len(cards) = 156

----------------------------------------------------------------------------
(* C5: Jokers(n)(s) has len(s) + n cards, the first len(s) being s        *)
(* unchanged and the last n all of suit Joker; Jokers(0)(s) equals s, and *)
(* Jokers(3) of the generated deck has 55 cards, exactly 3 of suit Joker. *)

Thm_C5 ==
    Applied("Jokers") =>
        LET s == hist[1]
            out == hist[2]
            n == opts[1].n
        IN /\ Len(out) = Len(s) + n
           /\ SubSeq(out, 1, Len(s)) = s
           /\ \A k \in (Len(s) + 1)..Len(out) : out[k].Suit = Joker
           /\ n = 0 => out = s
           /\ (n = 3 /\ s = SuitMajorDeck) =>
                  /\ Len(out) = 55
                  /\ Cardinality({k \in DOMAIN out : out[k].Suit = Joker}) = 3

Wit_C5 ==
    /\ Applied("Jokers")
    /\ opts[1].n = 3
    /\ hist[1] = SuitMajorDeck
    /\ Len(cards) = 55

----------------------------------------------------------------------------
(* C6: the n jokers appended by one Jokers(n) carry pairwise distinct     *)
(* Rank values, each in 0..n-1, for every n >= 0.                          *)

CE_C6 ==
    Applied("Jokers") =>
        LET s == hist[1]
            out == hist[2]
            n == opts[1].n
            added == (Len(s) + 1)..Len(out)
        IN /\ \A k \in added : out[k].Rank \in 0..(n - 1)
           /\ \A k, m \in added : k # m => out[k].Rank # out[m].Rank

\* C6, within the values of a Rank: as long as n does not exceed their number,
\* the ranks of the appended jokers are pairwise distinct.
Holds_C6 ==
    (Applied("Jokers") /\ opts[1].n <= RankModulus) =>
        LET s == hist[1]
            out == hist[2]
            added == (Len(s) + 1)..Len(out)
        IN \A k, m \in added : k # m => out[k].Rank # out[m].Rank

----------------------------------------------------------------------------
(* C7: DefaultSort applied to New() gives a sequence in strictly          *)
(* ascending order of the key ordinal(Suit) * 13 + ordinal(Rank), the     *)
(* very sequence New() returned, and a second DefaultSort leaves it       *)
(* unchanged, whatever the unstable sort does with equal keys.             *)

----------------------------------------------------------------------------
(* C8: Sort(ByRankThenBySuit) applied to New() gives the 52 cards rank by *)
(* rank, the four Aces first and the four Kings last, each rank in the    *)
(* order Spade, Diamond, Club, Heart; the key (ordinal(Rank) - 1) * 4 +   *)
(* ordinal(Suit) takes 52 distinct values on them.                         *)

Thm_C8 ==
    (Len(opts) >= 1 /\ opts[1] = OptSort("ByRankThenBySuit") /\ Len(hist) >= 2) =>
        /\ hist[2] = RankMajorDeck
        /\ Cardinality({rankThenSuit(hist[1][i]) : i \in DOMAIN hist[1]}) = 52
        /\ \A i \in DOMAIN hist[2] : rankThenSuit(hist[2][i]) = i - 1

Wit_C8 ==
    /\ pc = "done"
    /\ opts = <<OptSort("ByRankThenBySuit")>>
    /\ cards[1] = Card(Spade, Ace)
    /\ cards[4] = Card(Heart, Ace)
    /\ cards[5] = Card(Spade, 2)
    /\ cards[52] = Card(Heart, King)

----------------------------------------------------------------------------
(* C9: Shuffle(s) returns a permutation of s, whatever the random source  *)
(* draws: as many cards, each card as many times as in s, so that sorting *)
(* s and sorting the result give the same.                                 *)

Thm_C9 ==
    Applied("Shuffle") =>
        /\ Len(hist[2]) = Len(hist[1])
        /\ SameCards(hist[1], hist[2])
        /\ DefaultSort(hist[2]) = DefaultSort(hist[1])

Wit_C9 ==
    /\ Applied("Shuffle")
    /\ hist[1] = SuitMajorDeck
    /\ cards # SuitMajorDeck
    /\ cards[52] # hist[1][52]

----------------------------------------------------------------------------
(* C10: sorting the 52 cards mixed with jokers, in any arrangement, with  *)
(* DefaultSort or Sort(ByRankThenBySuit) gives a permutation of the input *)
(* whose non-joker cards, read in order, are in ascending order of the    *)
(* key, although a joker can have the key of a real card (a Joker of Rank *)
(* 0 has the suit-major key of the King of Hearts and the rank-major key  *)
(* of the Ace of Spades).                                                  *)

\* s holds each of the 52 cards once, and jokers besides.
DeckWithJokers(s) ==
    /\ \A c \in RealCards : Count(s, c) = 1
    /\ \A i \in DOMAIN s : s[i] \in RealCards \/ s[i].Suit = Joker

====
